---- MODULE Spec2Model ----
(***************************************************************************)
(* Model of src/app.py: the regular-expression language classifier        *)
(* (detect_language), the code-likelihood decision (format_code) and the  *)
(* polling loop with its per-channel watermark (monitor_channels,         *)
(* toggle_code_detection).  A text is a sequence of one-character         *)
(* strings; a regular expression is a set of alternatives, each a         *)
(* sequence of atoms, and is evaluated by the matcher below.              *)
(***************************************************************************)
EXTENDS Integers, Sequences, FiniteSets, TLC

----------------------------------------------------------------------------
(* Characters and the character classes of Python's re module.            *)

LowerSeq == <<"a","b","c","d","e","f","g","h","i","j","k","l","m","n","o","p","q","r","s","t","u","v","w","x","y","z">>
UpperSeq == <<"A","B","C","D","E","F","G","H","I","J","K","L","M","N","O","P","Q","R","S","T","U","V","W","X","Y","Z">>
DigitSeq == <<"0","1","2","3","4","5","6","7","8","9">>

Range(q) == {q[i] : i \in 1..Len(q)}

Lower == Range(LowerSeq)
Upper == Range(UpperSeq)
Digit == Range(DigitSeq)

\* \w
W == Lower \cup Upper \cup Digit \cup {"_"}
\* \s
S == {" ", "\t", "\n", "\r"}
Tab == {"\t"}
\* the grave accent, the one character a TLA+ string cannot hold
Backtick == "GRAVE"
Other == Range(<<"{","}","[","]","(",")","+","*","/","-","=","%","<",">","!","&","|",";",":",".",",","#","'","\"","?","@","$","^","~","\\">>) \cup {Backtick}
\* [\s\S]
AnyChar == W \cup S \cup Other
\* .  (no DOTALL flag: every character but the newline)
Dot == AnyChar \ {"\n"}

\* str.lower() of one character, as re.IGNORECASE compares
ToLower(c) == IF c \in Upper THEN LowerSeq[CHOOSE i \in 1..26 : UpperSeq[i] = c] ELSE c

----------------------------------------------------------------------------
(* Atoms: a literal string, a character class with a repetition count,    *)
(* the word boundary \b.                                                  *)

Lit(s)        == [k |-> "lit", s |-> s,    c |-> {}, lo |-> 0, many |-> FALSE, ci |-> FALSE]
LitI(s)       == [k |-> "lit", s |-> s,    c |-> {}, lo |-> 0, many |-> FALSE, ci |-> TRUE]
One(c)        == [k |-> "cls", s |-> <<>>, c |-> c,  lo |-> 1, many |-> FALSE, ci |-> FALSE]
Star(c)       == [k |-> "cls", s |-> <<>>, c |-> c,  lo |-> 0, many |-> TRUE,  ci |-> FALSE]
Plus(c)       == [k |-> "cls", s |-> <<>>, c |-> c,  lo |-> 1, many |-> TRUE,  ci |-> FALSE]
AtLeast(n, c) == [k |-> "cls", s |-> <<>>, c |-> c,  lo |-> n, many |-> TRUE,  ci |-> FALSE]
WordBoundary  == [k |-> "wb",  s |-> <<>>, c |-> {}, lo |-> 0, many |-> FALSE, ci |-> FALSE]

\* (a|b|c) followed by tail, and prefix followed by (a|b|c) followed by tail
Group(alts, tail) == {<<a>> \o tail : a \in alts}
Mid(head, alts, tail) == {head \o <<a>> \o tail : a \in alts}

\* the last position of the longest run of characters of c that starts after p
RECURSIVE RunEnd(_, _, _)
RunEnd(text, c, p) ==
    IF p < Len(text) /\ text[p + 1] \in c THEN RunEnd(text, c, p + 1) ELSE p

LitAt(a, text, p) ==
    /\ p + Len(a.s) <= Len(text)
    /\ \A i \in 1..Len(a.s) :
         IF a.ci THEN ToLower(text[p + i]) = ToLower(a.s[i]) ELSE text[p + i] = a.s[i]

IsWordAt(text, i) == i >= 1 /\ i <= Len(text) /\ text[i] \in W

\* the positions (count of characters consumed) after atom a, from the positions P
Step(a, text, P) ==
    CASE a.k = "lit" -> {p + Len(a.s) : p \in {q \in P : LitAt(a, text, q)}}
      [] a.k = "wb"  -> {p \in P : IsWordAt(text, p) # IsWordAt(text, p + 1)}
      [] a.k = "cls" /\ ~a.many ->
             {p + 1 : p \in {q \in P : q < Len(text) /\ text[q + 1] \in a.c}}
      [] a.k = "cls" /\ a.many ->
             UNION {(p + a.lo)..RunEnd(text, a.c, p) : p \in P}

RECURSIVE MatchFrom(_, _, _, _)
MatchFrom(alt, text, k, P) ==
    IF P = {} THEN FALSE
    ELSE IF k > Len(alt) THEN TRUE
    ELSE MatchFrom(alt, text, k + 1, Step(alt[k], text, P))

\* re.search(pattern, text) is not None
Search(pattern, text) == \E alt \in pattern : MatchFrom(alt, text, 1, 0..Len(text))

\* any(re.search(p, text) for p in patterns); the `or` chains of detect_language
AnySearch(patterns, text) == \E i \in 1..Len(patterns) : Search(patterns[i], text)

----------------------------------------------------------------------------
(* The patterns of the source.                                            *)

\* code_regex without its inline alternative
code_regex_fenced_only ==
    { <<Lit(<<Backtick,Backtick,Backtick>>), Star(W), Lit(<<"\n">>), Star(AnyChar), Lit(<<"\n",Backtick,Backtick,Backtick>>)>> }

\* r"BBB[\w]*\n[\s\S]*?\nBBB|B[\s\S]*?B", B the grave accent
code_regex ==
    { <<Lit(<<Backtick,Backtick,Backtick>>), Star(W), Lit(<<"\n">>), Star(AnyChar), Lit(<<"\n",Backtick,Backtick,Backtick>>)>>,
      <<Lit(<<Backtick>>), Star(AnyChar), Lit(<<Backtick>>)>> }

PythonPatterns == <<
    {<<Lit(<<"d","e","f">>), Plus(S), Plus(W), Star(S), Lit(<<"(">>), Star(Dot), Lit(<<")",":">>)>>},
    {<<Lit(<<"i","m","p","o","r","t">>), Plus(S), Plus(W \cup {"."})>>},
    {<<Lit(<<"f","r","o","m">>), Plus(S), Plus(W \cup {"."}), Plus(S), Lit(<<"i","m","p","o","r","t">>)>>},
    {<<Lit(<<"p","r","i","n","t">>), Star(S), Lit(<<"(">>)>>} >>

JsPatterns == <<
    {<<Lit(<<"f","u","n","c","t","i","o","n">>), Plus(S), Plus(W), Star(S), Lit(<<"(">>), Star(Dot), Lit(<<")">>)>>},
    {<<Lit(<<"c","o","n","s","t">>), Plus(S), Plus(W), Star(S), Lit(<<"=">>)>>},
    {<<Lit(<<"l","e","t">>), Plus(S), Plus(W), Star(S), Lit(<<"=">>)>>},
    {<<Lit(<<"v","a","r">>), Plus(S), Plus(W), Star(S), Lit(<<"=">>)>>},
    {<<Lit(<<"=",">">>), Star(S), Lit(<<"{">>)>>},
    {<<Lit(<<"d","o","c","u","m","e","n","t",".">>)>>},
    {<<Lit(<<"c","o","n","s","o","l","e",".","l","o","g">>)>>} >>

TsPatterns == <<
    {<<Lit(<<"i","n","t","e","r","f","a","c","e">>), Plus(S), Plus(W), Star(S), Lit(<<"{">>)>>},
    Mid(<<Lit(<<":">>), Star(S)>>,
        {Lit(<<"s","t","r","i","n","g">>), Lit(<<"n","u","m","b","e","r">>), Lit(<<"b","o","o","l","e","a","n">>), Lit(<<"a","n","y">>)},
        <<Star(S), One({",", "=", ")"})>>) >>

HtmlPatterns == <<
    Group({Lit(<<"<","!","D","O","C","T","Y","P","E">>), Lit(<<"<","h","t","m","l">>), Lit(<<"<","h","e","a","d">>), Lit(<<"<","b","o","d","y">>), Lit(<<"<","d","i","v">>),
           Lit(<<"<","s","p","a","n">>), Lit(<<"<","p">>), Lit(<<"<","a">>), Lit(<<"<","i","m","g">>)},
          <<WordBoundary>>) >>

CssPatterns == <<
    {<<One({".", "#"}), Plus(W \cup {"-"}), Star(S), Lit(<<"{">>)>>},
    Group({Lit(<<"m","a","r","g","i","n">>), Lit(<<"p","a","d","d","i","n","g">>), Lit(<<"c","o","l","o","r">>), Lit(<<"b","a","c","k","g","r","o","u","n","d">>), Lit(<<"f","o","n","t">>)},
          <<Lit(<<":">>)>>) >>

CFamilyPatterns == <<
    Group({Lit(<<"p","u","b","l","i","c">>), Lit(<<"p","r","i","v","a","t","e">>), Lit(<<"p","r","o","t","e","c","t","e","d">>)},
          <<Plus(S), Plus(W), Plus(S), Plus(W), Star(S), Lit(<<"(">>)>>),
    Mid(<<Lit(<<"c","l","a","s","s">>), Plus(S), Plus(W), Star(S)>>,
        {Lit(<<"e","x","t","e","n","d","s">>), Lit(<<"i","m","p","l","e","m","e","n","t","s">>), Lit(<<":">>)}, <<>>),
    Group({LitI(<<"i","n","t">>), LitI(<<"f","l","o","a","t">>), LitI(<<"d","o","u","b","l","e">>), LitI(<<"c","h","a","r">>), LitI(<<"b","o","o","l","e","a","n">>),
           LitI(<<"s","t","r","i","n","g">>)},
          <<Plus(S), Plus(W), Star(S), Lit(<<"=">>)>>) >>

JavaPatterns == <<
    {<<Lit(<<"S","y","s","t","e","m",".","o","u","t",".","p","r","i","n","t","l","n">>)>>},
    {<<Lit(<<"p","u","b","l","i","c">>), Plus(S), Lit(<<"s","t","a","t","i","c">>), Plus(S), Lit(<<"v","o","i","d">>), Plus(S), Lit(<<"m","a","i","n">>)>>} >>

CsharpPatterns == <<
    {<<Lit(<<"C","o","n","s","o","l","e",".","W","r","i","t","e","L","i","n","e">>)>>},
    {<<Lit(<<"n","a","m","e","s","p","a","c","e">>), Plus(S), Plus(W)>>} >>

CppPatterns == <<
    {<<Lit(<<"#","i","n","c","l","u","d","e">>)>>},
    {<<Lit(<<"s","t","d",":",":">>)>>},
    {<<Lit(<<"-",">">>), Plus(W)>>} >>

code_indicators == <<
    {<<Lit(<<"d","e","f">>), Plus(S), Plus(W), Star(S), Lit(<<"(">>), Star(Dot), Lit(<<")",":">>)>>},
    {<<Lit(<<"c","l","a","s","s">>), Plus(S), Plus(W), One({":", "("})>>},
    {<<Lit(<<"i","m","p","o","r","t">>), Plus(S), Plus(W)>>},
    {<<Lit(<<"f","r","o","m">>), Plus(S), Plus(W), Plus(S), Lit(<<"i","m","p","o","r","t">>)>>},
    {<<Lit(<<"f","u","n","c","t","i","o","n">>), Plus(S), Plus(W), Star(S), Lit(<<"(">>), Star(Dot), Lit(<<")">>)>>},
    {<<Lit(<<"c","o","n","s","t">>), Plus(S), Plus(W), Star(S), Lit(<<"=">>)>>},
    {<<Lit(<<"l","e","t">>), Plus(S), Plus(W), Star(S), Lit(<<"=">>)>>},
    {<<Lit(<<"v","a","r">>), Plus(S), Plus(W), Star(S), Lit(<<"=">>)>>},
    {<<Lit(<<"=",">">>), Star(S), Lit(<<"{">>)>>},
    {<<Lit(<<"c","l","a","s","s">>), Plus(S), Plus(W), Star(S), Lit(<<"{">>)>>},
    {<<Lit(<<"p","u","b","l","i","c">>), Plus(S), Plus(W), Plus(S), Plus(W), Star(S), Lit(<<"(">>), Star(Dot), Lit(<<")">>)>>},
    {<<Lit(<<"p","r","i","v","a","t","e">>), Plus(S), Plus(W), Plus(S), Plus(W), Star(S), Lit(<<"(">>), Star(Dot), Lit(<<")">>)>>},
    {<<Lit(<<"p","r","o","t","e","c","t","e","d">>), Plus(S), Plus(W), Plus(S), Plus(W), Star(S), Lit(<<"(">>), Star(Dot), Lit(<<")">>)>>},
    {<<Lit(<<"f","o","r">>), Star(S), Lit(<<"(">>), Plus(Dot), Lit(<<")">>)>>},
    {<<Lit(<<"i","f">>), Star(S), Lit(<<"(">>), Plus(Dot), Lit(<<")">>)>>},
    {<<Lit(<<"w","h","i","l","e">>), Star(S), Lit(<<"(">>), Plus(Dot), Lit(<<")">>)>>},
    {<<Lit(<<"s","w","i","t","c","h">>), Star(S), Lit(<<"(">>), Plus(Dot), Lit(<<")">>)>>},
    {<<Lit(<<"c","a","s","e">>), Plus(S), Plus(Dot), Lit(<<":">>)>>},
    {<<Lit(<<"}">>), Star(S), Lit(<<"e","l","s","e">>), Star(S), Lit(<<"{">>)>>},
    {<<Lit(<<"\n">>), AtLeast(2, S), Star(Dot), Lit(<<"\n">>), AtLeast(2, S)>>},
    {<<Lit(<<"\n">>), Plus(Tab), Star(Dot), Lit(<<"\n">>), Plus(Tab)>>} >>

----------------------------------------------------------------------------
(* detect_language: the ordered branches.                                  *)

\* the labels detect_language returns; the empty string is "unknown"
Python     == <<"p","y","t","h","o","n">>
Javascript == <<"j","a","v","a","s","c","r","i","p","t">>
Typescript == <<"t","y","p","e","s","c","r","i","p","t">>
Html       == <<"h","t","m","l">>
Css        == <<"c","s","s">>
Java       == <<"j","a","v","a">>
Csharp     == <<"c","s","h","a","r","p">>
Cpp        == <<"c","p","p">>
Unknown    == <<>>

PythonBranch(code)  == AnySearch(PythonPatterns, code)
JsBranch(code)      == AnySearch(JsPatterns, code)
TsRefinement(code)  == AnySearch(TsPatterns, code)
HtmlBranch(code)    == AnySearch(HtmlPatterns, code)
CssBranch(code)     == AnySearch(CssPatterns, code)
CFamilyBranch(code) == AnySearch(CFamilyPatterns, code)
JavaRefinement(code)   == AnySearch(JavaPatterns, code)
CsharpRefinement(code) == AnySearch(CsharpPatterns, code)
CppRefinement(code)    == AnySearch(CppPatterns, code)

\* detect_language with the css test ahead of the html test
detect_language_css_first(code) ==
    IF PythonBranch(code) THEN Python
    ELSE IF JsBranch(code) THEN (IF TsRefinement(code) THEN Typescript ELSE Javascript)
    ELSE IF CssBranch(code) THEN Css
    ELSE IF HtmlBranch(code) THEN Html
    ELSE IF CFamilyBranch(code)
         THEN (IF JavaRefinement(code) THEN Java
               ELSE IF CsharpRefinement(code) THEN Csharp
               ELSE IF CppRefinement(code) THEN Cpp
               ELSE Unknown)
    ELSE Unknown

\* detect_language whose C-family branch labels what no refinement matched
detect_language_default_cpp(code) ==
    IF PythonBranch(code) THEN Python
    ELSE IF JsBranch(code) THEN (IF TsRefinement(code) THEN Typescript ELSE Javascript)
    ELSE IF HtmlBranch(code) THEN Html
    ELSE IF CssBranch(code) THEN Css
    ELSE IF CFamilyBranch(code)
         THEN (IF JavaRefinement(code) THEN Java
               ELSE IF CsharpRefinement(code) THEN Csharp
               ELSE Cpp)
    ELSE Unknown

detect_language(code) ==
    IF PythonBranch(code) THEN Python
    ELSE IF JsBranch(code) THEN (IF TsRefinement(code) THEN Typescript ELSE Javascript)
    ELSE IF HtmlBranch(code) THEN Html
    ELSE IF CssBranch(code) THEN Css
    ELSE IF CFamilyBranch(code)
         THEN (IF JavaRefinement(code) THEN Java
               ELSE IF CsharpRefinement(code) THEN Csharp
               ELSE IF CppRefinement(code) THEN Cpp
               ELSE Unknown)
    ELSE Unknown

----------------------------------------------------------------------------
(* format_code: the already-formatted test, the structural indicators and *)
(* the density fallback.                                                  *)

\* the value None; no text equals it, a text holds one-character strings only
None == <<"None">>
BotUser == "bot"

code_chars == Range(<<"{","}","[","]","(",")","+","*","/","-","=","%","<",">","!","&","|",";",":",".">>)

\* content.split("\n")
RECURSIVE Split(_, _, _)
Split(content, i, line) ==
    IF i > Len(content) THEN <<line>>
    ELSE IF content[i] = "\n" THEN <<line>> \o Split(content, i + 1, <<>>)
    ELSE Split(content, i + 1, Append(line, content[i]))

lines(content) == Split(content, 1, <<>>)

code_lines(content) ==
    LET ls == lines(content)
    IN  Cardinality({i \in 1..Len(ls) : \E j \in 1..Len(ls[i]) : ls[i][j] \in code_chars})

\* is_code with the density threshold off by one
is_code_two_lines(content) ==
    IF AnySearch(code_indicators, content) THEN TRUE
    ELSE IF "\n" \in Range(content) THEN code_lines(content) >= 2
    ELSE FALSE

is_code(content) ==
    IF AnySearch(code_indicators, content) THEN TRUE
    ELSE IF "\n" \in Range(content) THEN code_lines(content) > 2
    ELSE FALSE

formatted(display_name, language, content) ==
    display_name \o <<"\n",Backtick,Backtick,Backtick>> \o language \o <<"\n">> \o content \o <<"\n",Backtick,Backtick,Backtick>>

format_code(message) ==
    IF message.author = BotUser \/ Search(code_regex, message.content) THEN None
    ELSE IF is_code(message.content)
         THEN formatted(message.display_name, detect_language(message.content), message.content)
         ELSE None

----------------------------------------------------------------------------
(* Bounds of the model.                                                   *)

\* lines per text of the classification inputs
MaxLines == 3
\* text channels the bot can see
NumChannels == 1
\* messages users post, commands included
MaxPosts == 3
\* polling cycles of monitor_channels that are followed
MaxCycles == 2

\* channel.history(limit=10, ...)
HistoryLimit == 10

----------------------------------------------------------------------------
(* The texts the classification is applied to: up to MaxLines lines of    *)
(* LinePool joined by newlines, and the scenario texts of the             *)
(* specification.                                                         *)

LinePool == {
    <<"p","r","i","n","t","(","1",")">>,
    <<"l","e","t"," ","x"," ","="," ","1",";">>,
    <<"f","(","a",":"," ","a","n","y",")">>,
    <<"<","p",">","h","i">>,
    <<"c","o","l","o","r",":"," ","r","e","d">>,
    <<"i","n","t"," ","x"," ","="," ","1",";">>,
    <<"S","y","s","t","e","m",".","o","u","t",".","p","r","i","n","t","l","n">>,
    <<"n","a","m","e","s","p","a","c","e"," ","N">>,
    <<"s","t","d",":",":","c","o","u","t">>,
    <<Backtick,Backtick,Backtick>>,
    <<Backtick,"x",Backtick>> }

RECURSIVE Joined(_)
\* "\n".join(ls) for every ls of n lines of LinePool
Joined(n) ==
    IF n = 0 THEN {<<>>}
    ELSE IF n = 1 THEN LinePool
    ELSE {t \o <<"\n">> \o l : t \in Joined(n - 1), l \in LinePool}

JavaMainText == <<"p","u","b","l","i","c"," ","s","t","a","t","i","c"," ","v","o","i","d"," ","m","a","i","n","(","S","t","r","i","n","g","[","]"," ","a","r","g","s",")"," ","{"," ","S","y","s","t","e","m",".","o","u","t",".","p","r","i","n","t","l","n","(","1",")",";"," ","}">>
CppIncludeText == <<"#","i","n","c","l","u","d","e"," ","<","i","o","s","t","r","e","a","m",">","\n","s","t","d",":",":","c","o","u","t"," ","<","<"," ","1",";">>
InterfaceText == <<"i","n","t","e","r","f","a","c","e"," ","F","o","o"," ","{"," ","b","a","r",":"," ","s","t","r","i","n","g"," ","}">>
PythonDefText == <<"d","e","f"," ","f","o","o","(",")",":","\n"," "," "," "," ","r","e","t","u","r","n"," ","1">>
JsArrowText == <<"c","o","n","s","t"," ","x"," ","="," ","(",")"," ","=",">"," ","{"," ","c","o","n","s","o","l","e",".","l","o","g","(","x",")",";"," ","}">>
HelloText == <<"h","e","l","l","o","\n","h","o","w"," ","a","r","e"," ","y","o","u">>

ScenarioTexts ==
    {JavaMainText, CppIncludeText, InterfaceText, PythonDefText, JsArrowText, HelloText}

Texts == UNION {Joined(n) : n \in 0..MaxLines} \cup ScenarioTexts

DisplayName(author) ==
    CASE author = "admin"  -> <<"a","d","m","i","n">>
      [] author = "member" -> <<"m","e","m","b","e","r">>
      [] author = BotUser  -> <<"b","o","t">>

Message(id, author, content) ==
    [id |-> id, author |-> author, display_name |-> DisplayName(author), content |-> content]

\* what the bot itself posts: the reposts of format_code
BotTexts == {formatted(DisplayName("member"), detect_language(t), t) : t \in ScenarioTexts}

----------------------------------------------------------------------------
(* State.                                                                 *)

VARIABLES
    message,         \* classification: the message handed to format_code / detectlang
    repost,          \* classification: what format_code returned for it
    language,        \* classification: what detect_language returned for its text
    reply,           \* classification: what detect_language_command answered
    last_processed,  \* the dictionary channel id -> last processed message id
    history,         \* per text channel, its messages, oldest first
    nextId,          \* the next message id the platform hands out
    inbox,           \* command messages whose on_message has not run yet
    pc,              \* where monitor_channels is suspended
    cycle,           \* the polling cycle monitor_channels is in
    chIdx,           \* monitor_channels: index of the channel being processed
    last_id,         \* monitor_channels: its local last_id
    batch,           \* monitor_channels: fetched messages not processed yet
    closed,          \* bot.is_closed()
    posts,           \* count of user posts
    fetch_answer,    \* what togglecode had last answered when the batch was fetched
    sends,           \* log of the reposts channel.send delivered
    failed           \* messages whose repost raised in channel.send and was not delivered since

textVars == <<message, repost, language, reply>>
botVars == <<last_processed, history, nextId, inbox, pc, cycle, chIdx, last_id, batch,
             closed, posts, fetch_answer, sends, failed>>
vars == <<message, repost, language, reply, last_processed, history, nextId, inbox, pc,
          cycle, chIdx, last_id, batch, closed, posts, fetch_answer, sends, failed>>

Pending == <<"Pending">>
NoMessage == Message(0, "member", <<>>)

TextChannels == 1..NumChannels
\* bot.get_all_channels(): a voice channel, then the text channels
AllChannels == [i \in 1..(NumChannels + 1) |-> i - 1]
IsTextChannel(c) == c \in TextChannels

BotInit ==
    /\ last_processed = <<>>
    /\ history = [c \in TextChannels |-> <<>>]
    /\ nextId = 1
    /\ inbox = {}
    /\ pc = "ready"
    /\ cycle = 0
    /\ chIdx = 0
    /\ last_id = 0
    /\ batch = <<>>
    /\ closed = FALSE
    /\ posts = 0
    /\ fetch_answer = "none"
    /\ sends = {}
    /\ failed = {}

TextIdle ==
    /\ message = NoMessage
    /\ repost = Pending
    /\ language = Pending
    /\ reply = Pending

----------------------------------------------------------------------------
(* Classification of one message: format_code as the polling loop calls   *)
(* it, and the detectlang command on the same text.                       *)

TextInit ==
    /\ \/ \E t \in Texts : message = Message(1, "member", t)
       \/ \E t \in BotTexts : message = Message(1, BotUser, t)
    /\ repost = Pending
    /\ language = Pending
    /\ reply = Pending
    /\ BotInit

FormatMessage ==
    /\ repost = Pending
    /\ repost' = format_code(message)
    /\ UNCHANGED <<message, language, reply>>
    /\ UNCHANGED botVars

PleaseProvide == <<"P","l","e","a","s","e"," ","p","r","o","v","i","d","e"," ","s","o","m","e"," ","c","o","d","e"," ","t","o"," ","d","e","t","e","c","t"," ","t","h","e"," ","l","a","n","g","u","a","g","e",".">>
CouldNotDetect == <<"C","o","u","l","d"," ","n","o","t"," ","d","e","t","e","c","t"," ","t","h","e"," ","p","r","o","g","r","a","m","m","i","n","g"," ","l","a","n","g","u","a","g","e",".">>
Detected(l) == <<"D","e","t","e","c","t","e","d"," ","l","a","n","g","u","a","g","e",":"," ","*","*">> \o l \o <<"*","*">>

detect_language_command ==
    /\ language = Pending
    /\ IF message.content = <<>>
       THEN /\ reply' = PleaseProvide
            /\ language' = None
       ELSE /\ language' = detect_language(message.content)
            /\ reply' = IF language' # <<>> THEN Detected(language') ELSE CouldNotDetect
    /\ UNCHANGED <<message, repost>>
    /\ UNCHANGED botVars

TextNext == FormatMessage \/ detect_language_command

SpecText == TextInit /\ [][TextNext]_vars

----------------------------------------------------------------------------
(* The bot: users post into the text channels, on_message dispatches the  *)
(* togglecode command, and monitor_channels polls.  monitor_channels is   *)
(* suspended only at its awaits (the history fetch, channel.send, the     *)
(* sleeps); what runs between two awaits is one action.                   *)

CodeText == <<"i","f"," ","(","a",")"," ","b",";">>
PlainText == <<"h","i">>
ToggleCommand == <<"!","t","o","g","g","l","e","c","o","d","e">>
ChatTexts == {CodeText, PlainText, ToggleCommand}

EnabledReply == <<"C","o","d","e"," ","d","e","t","e","c","t","i","o","n"," ","e","n","a","b","l","e","d"," ","f","o","r"," ","t","h","i","s"," ","c","h","a","n","n","e","l",".">>
DisabledReply == <<"C","o","d","e"," ","d","e","t","e","c","t","i","o","n"," ","d","i","s","a","b","l","e","d"," ","f","o","r"," ","t","h","i","s"," ","c","h","a","n","n","e","l",".">>

Users == {"admin", "member"}
\* @commands.has_permissions(manage_messages=True)
HasManageMessages(author) == author = "admin"

\* last_processed.get(channel.id, 0)
Get(lp, c) == IF c \in DOMAIN lp THEN lp[c] ELSE 0
\* last_processed[channel.id] = v
Put(lp, c, v) == [k \in DOMAIN lp \cup {c} |-> IF k = c THEN v ELSE lp[k]]
\* del last_processed[channel_id]
Del(lp, c) == [k \in DOMAIN lp \ {c} |-> lp[k]]
Max(a, b) == IF a >= b THEN a ELSE b

RECURSIVE LastAnswerFrom(_, _)
LastAnswerFrom(h, i) ==
    IF i = 0 THEN "none"
    ELSE IF h[i].author = BotUser /\ h[i].content = EnabledReply THEN "enabled"
    ELSE IF h[i].author = BotUser /\ h[i].content = DisabledReply THEN "disabled"
    ELSE LastAnswerFrom(h, i - 1)

\* what togglecode last answered in channel c
LastAnswer(c) == LastAnswerFrom(history[c], Len(history[c]))

Init == TextIdle /\ BotInit

\* a user sends a message; a command is delivered to on_message later
UserPost ==
    \E c \in TextChannels, author \in Users, content \in ChatTexts :
        /\ posts < MaxPosts
        /\ posts' = posts + 1
        /\ history' = [history EXCEPT ![c] = Append(@, Message(nextId, author, content))]
        /\ nextId' = nextId + 1
        /\ inbox' = IF content = ToggleCommand
                    THEN inbox \cup {[channel |-> c, id |-> nextId, author |-> author]}
                    ELSE inbox
        /\ UNCHANGED <<last_processed, pc, cycle, chIdx, last_id, batch, closed, sends, failed, fetch_answer>>
        /\ UNCHANGED textVars

toggle_code_detection ==
    \E ctx \in inbox :
        /\ inbox' = inbox \ {ctx}
        /\ IF ~HasManageMessages(ctx.author)
           THEN UNCHANGED <<last_processed, history, nextId>>
           ELSE /\ IF ctx.channel \in DOMAIN last_processed
                   THEN /\ last_processed' = Del(last_processed, ctx.channel)
                        /\ history' = [history EXCEPT ![ctx.channel] =
                               Append(@, Message(nextId, BotUser, DisabledReply))]
                   ELSE /\ last_processed' = Put(last_processed, ctx.channel, ctx.id)
                        /\ history' = [history EXCEPT ![ctx.channel] =
                               Append(@, Message(nextId, BotUser, EnabledReply))]
                /\ nextId' = nextId + 1
        /\ UNCHANGED <<pc, cycle, chIdx, last_id, batch, closed, posts, sends, failed, fetch_answer>>
        /\ UNCHANGED textVars

on_ready ==
    /\ pc = "ready"
    /\ pc' = "loop"
    /\ UNCHANGED <<last_processed, history, nextId, inbox, cycle, chIdx, last_id, batch,
                   closed, posts, sends, failed, fetch_answer>>
    /\ UNCHANGED textVars

\* the first index from i on of a text channel in get_all_channels(), 0 if none
RECURSIVE NextTextChannel(_)
NextTextChannel(i) ==
    IF i > Len(AllChannels) THEN 0
    ELSE IF IsTextChannel(AllChannels[i]) THEN i
    ELSE NextTextChannel(i + 1)

\* the for loop moves on to channel index i: read last_id and await the history,
\* or leave the loop for the sleep
EnterChannel(i, lp) ==
    LET j == NextTextChannel(i)
    IN  IF j = 0
        THEN /\ pc' = "sleep"
             /\ chIdx' = 0
             /\ last_id' = 0
        ELSE /\ pc' = "fetch"
             /\ chIdx' = j
             /\ last_id' = Get(lp, AllChannels[j])

\* the body of the async for over the fetched messages, up to the next await:
\* bot messages are skipped, a message that is not code moves the watermark, a
\* message that is code stops at channel.send
RECURSIVE Scan(_, _, _)
Scan(msgs, lp, c) ==
    IF msgs = <<>> THEN [lp |-> lp, batch |-> <<>>]
    ELSE IF Head(msgs).author = BotUser THEN Scan(Tail(msgs), lp, c)
    ELSE IF format_code(Head(msgs)) # None THEN [lp |-> lp, batch |-> msgs]
    ELSE Scan(Tail(msgs), Put(lp, c, Max(Get(lp, c), Head(msgs).id)), c)

Resume(msgs, lp) ==
    LET r == Scan(msgs, lp, AllChannels[chIdx])
    IN  /\ last_processed' = r.lp
        /\ batch' = r.batch
        /\ IF r.batch # <<>>
           THEN pc' = "send" /\ UNCHANGED <<chIdx, last_id>>
           ELSE EnterChannel(chIdx + 1, r.lp)

\* while not bot.is_closed(): ... for channel in bot.get_all_channels():
BeginCycle ==
    /\ pc = "loop"
    /\ IF closed
       THEN /\ pc' = "done"
            /\ UNCHANGED <<cycle, chIdx, last_id>>
       ELSE /\ cycle < MaxCycles
            /\ cycle' = cycle + 1
            /\ EnterChannel(1, last_processed)
    /\ UNCHANGED <<last_processed, history, nextId, inbox, batch, closed, posts, sends, failed, fetch_answer>>
    /\ UNCHANGED textVars

\* channel.history(limit=10, after=discord.Object(id=last_id))
Fetched(c) ==
    LET after == SelectSeq(history[c], LAMBDA m : m.id > last_id)
    IN  SubSeq(after, 1, IF Len(after) < HistoryLimit THEN Len(after) ELSE HistoryLimit)

FetchDone ==
    /\ pc = "fetch"
    /\ Resume(Fetched(AllChannels[chIdx]), last_processed)
    /\ fetch_answer' = LastAnswer(AllChannels[chIdx])
    /\ UNCHANGED <<history, nextId, inbox, cycle, closed, posts, sends, failed>>
    /\ UNCHANGED textVars

\* an await of the cycle raises: except Exception, print, sleep(5)
FetchFail ==
    /\ pc = "fetch"
    /\ pc' = "backoff"
    /\ batch' = <<>>
    /\ UNCHANGED <<last_processed, history, nextId, inbox, cycle, chIdx, last_id, closed,
                   posts, sends, failed, fetch_answer>>
    /\ UNCHANGED textVars

\* await channel.send(formatted) returns; then the watermark moves and the loop goes on
SendDone ==
    /\ pc = "send"
    /\ LET c == AllChannels[chIdx]
           m == Head(batch)
       IN  /\ history' = [history EXCEPT ![c] =
                   Append(@, Message(nextId, BotUser, format_code(m)))]
           /\ nextId' = nextId + 1
           /\ sends' = sends \cup {[channel |-> c, message_id |-> m.id, cycle |-> cycle,
                                    fetched |-> fetch_answer, answered |-> LastAnswer(c)]}
           /\ failed' = failed \ {[channel |-> c, id |-> m.id]}
           /\ Resume(Tail(batch), Put(last_processed, c, Max(Get(last_processed, c), m.id)))
    /\ UNCHANGED <<inbox, cycle, closed, posts, fetch_answer>>
    /\ UNCHANGED textVars

SendFail ==
    /\ pc = "send"
    /\ pc' = "backoff"
    /\ failed' = failed \cup {[channel |-> AllChannels[chIdx], id |-> Head(batch).id]}
    /\ batch' = <<>>
    /\ UNCHANGED <<last_processed, history, nextId, inbox, cycle, chIdx, last_id, closed,
                   posts, sends, fetch_answer>>
    /\ UNCHANGED textVars

\* asyncio.sleep(1) after a cycle, asyncio.sleep(5) after an exception
Wake ==
    /\ pc \in {"sleep", "backoff"}
    /\ pc' = "loop"
    /\ UNCHANGED <<last_processed, history, nextId, inbox, cycle, chIdx, last_id, batch,
                   closed, posts, sends, failed, fetch_answer>>
    /\ UNCHANGED textVars

Close ==
    /\ ~closed
    /\ closed' = TRUE
    /\ UNCHANGED <<last_processed, history, nextId, inbox, pc, cycle, chIdx, last_id, batch,
                   posts, sends, failed, fetch_answer>>
    /\ UNCHANGED textVars

Next ==
    \/ UserPost
    \/ toggle_code_detection
    \/ on_ready
    \/ BeginCycle
    \/ FetchDone
    \/ FetchFail
    \/ SendDone
    \/ SendFail
    \/ Wake
    \/ Close

Spec == Init /\ [][Next]_vars

----------------------------------------------------------------------------
(* Properties of the classification, checked under SpecText.              *)

Text == message.content
Formatted == repost # Pending
Classified == language # Pending /\ language # None
ByUser == message.author # BotUser

\* a grave accent, any characters, a grave accent
HasInlineSpan(text) ==
    \E i \in 1..Len(text) :
        text[i] = Backtick /\ \E j \in (i + 1)..Len(text) : text[j] = Backtick

FenceAt(text, i) ==
    i >= 1 /\ i + 2 <= Len(text) /\ \A d \in 0..2 : text[i + d] = Backtick

\* three grave accents, a tag of word characters, a newline, a body, a newline,
\* three grave accents
HasFencedBlock(text) ==
    \E i \in 1..Len(text) :
        /\ FenceAt(text, i)
        /\ \E k \in (i + 3)..Len(text) :
               /\ text[k] = "\n"
               /\ \A m \in (i + 3)..(k - 1) : text[m] \in W
               /\ \E j \in (k + 1)..Len(text) : text[j] = "\n" /\ FenceAt(text, j + 1)

\* C1: a message whose text holds a well-formed fenced block or an inline span is
\* never reposted: format_code returns None for it, whatever else the text holds.
C1_FormattedSpanNeverReposted ==
    (Formatted /\ (HasFencedBlock(Text) \/ HasInlineSpan(Text))) => repost = None

\* C1 witness: a fenced block around a structural indicator, judged not to repost
C1_Witness ==
    /\ Formatted /\ ByUser /\ repost = None
    /\ HasFencedBlock(Text)
    /\ AnySearch(code_indicators, Text)

Labels == {Python, Javascript, Typescript, Html, Css, Java, Csharp, Cpp, Unknown}

\* C2: the label is the one of the earliest branch whose top-level condition
\* matches, with typescript iff the refinement matches inside the javascript
\* branch and java, csharp, cpp tried in that order inside the C-family branch.
C2_FirstMatchWins ==
    Classified =>
        LET py == PythonBranch(Text)
            js == JsBranch(Text)
            html == HtmlBranch(Text)
            css == CssBranch(Text)
            cf == CFamilyBranch(Text)
        IN  /\ py => language = Python
            /\ (~py /\ js) =>
                   /\ language \in {Typescript, Javascript}
                   /\ language = Typescript <=> TsRefinement(Text)
            /\ (~py /\ ~js /\ html) => language = Html
            /\ (~py /\ ~js /\ ~html /\ css) => language = Css
            /\ (~py /\ ~js /\ ~html /\ ~css /\ cf) =>
                   /\ JavaRefinement(Text) => language = Java
                   /\ (~JavaRefinement(Text) /\ CsharpRefinement(Text)) => language = Csharp
                   /\ (~JavaRefinement(Text) /\ ~CsharpRefinement(Text) /\ CppRefinement(Text))
                          => language = Cpp

\* C2 witness: html wins although the css and the C-family conditions match too
C2_Witness ==
    /\ Classified /\ language = Html
    /\ CssBranch(Text) /\ CFamilyBranch(Text)

\* C3: with no formatted span and no structural indicator, the message is judged
\* code iff its text has a newline and more than 2 of its lines hold a character of
\* the punctuation set.
C3_DensityFallback ==
    (/\ Formatted /\ ByUser
     /\ ~HasFencedBlock(Text) /\ ~HasInlineSpan(Text)
     /\ ~AnySearch(code_indicators, Text))
    => (repost # None <=> ("\n" \in Range(Text) /\ code_lines(Text) > 2))

\* C3 witness: three lines, punctuation on the first two only, judged not code
C3_Witness ==
    /\ Formatted /\ ByUser /\ repost = None
    /\ ~AnySearch(code_indicators, Text)
    /\ Len(lines(Text)) = 3
    /\ code_lines(Text) = 2
    /\ \A j \in 1..Len(lines(Text)[3]) : lines(Text)[3][j] \notin code_chars

\* C4: the main-method text is labelled java.
C4_JavaMainIsJava ==
    (Classified /\ Text = JavaMainText) => language = Java

\* C5: the include / std:: text is labelled cpp.
C5_IncludeIsCpp ==
    (Classified /\ Text = CppIncludeText) => language = Cpp

\* C6: the interface-declaration text is labelled typescript.
C6_InterfaceIsTypescript ==
    (Classified /\ Text = InterfaceText) => language = Typescript

\* C7: detect_language always returns one of its labels, and the unknown label
\* (the empty string) exactly when no branch yields one; the empty text is unknown.
C7_UnknownIffNoBranch ==
    /\ detect_language(<<>>) = Unknown
    /\ Classified =>
        /\ language \in Labels
        /\ language = Unknown <=>
              /\ ~PythonBranch(Text) /\ ~JsBranch(Text)
              /\ ~HtmlBranch(Text) /\ ~CssBranch(Text)
              /\ \/ ~CFamilyBranch(Text)
                 \/ /\ ~JavaRefinement(Text)
                    /\ ~CsharpRefinement(Text)
                    /\ ~CppRefinement(Text)

\* C7 witness: a C-family declaration without a language idiom falls through
C7_Witness ==
    /\ Classified /\ language = Unknown
    /\ CFamilyBranch(Text)

----------------------------------------------------------------------------
(* Properties of the polling loop, checked under Spec.                    *)

\* C8: once togglecode has answered "disabled" for a channel, no repost is sent
\* into that channel until togglecode answers "enabled" for it.  Read in the
\* claim's favour: a repost counts only if "disabled" was the last answer both
\* when its message was fetched and when the repost was delivered.
C8_NoRepostWhileDisabled ==
    \A s \in sends : ~(s.fetched = "disabled" /\ s.answered = "disabled")

\* C9: an exception in a cycle never ends the loop (only closing the bot does), and
\* a message whose send failed keeps its channel's watermark below its id, so that
\* a later cycle fetches it again.
C9_FailedSendStaysAboveWatermark ==
    /\ pc = "done" => closed
    /\ \A f \in failed : Get(last_processed, f.channel) < f.id

\* C10: each user message is reposted at most once: no message is passed to
\* channel.send as a repost in two different polling cycles.
C10_RepostedAtMostOnce ==
    \A s1, s2 \in sends :
        (s1.channel = s2.channel /\ s1.message_id = s2.message_id) => s1.cycle = s2.cycle

====
